---- MODULE Spec2Model ----
(***************************************************************************)
(* TheraLoop: the GEPA prompt optimiser (theraloop/optim/gepa_pipeline.py, *)
(* theraloop/optim/pareto.py), the metric functions it scores with         *)
(* (theraloop/metrics), and the serving layer: the escalation router       *)
(* (theraloop/serving), the Together adapters (theraloop/adapters) and the *)
(* rate limiter (theraloop/auth/jwt_auth.py).                              *)
(*                                                                         *)
(* Conventions.                                                            *)
(*   - A Python optional is a sequence of length 0 (None) or 1 (a value).  *)
(*   - A Python str is a sequence of one-character strings.                *)
(*   - A Python float is an exact rational <<num, den>> in lowest terms    *)
(*     with den > 0; rounding of IEEE arithmetic is not modelled.          *)
(*   - Python lists are sequences, indexed from 1.                         *)
(***************************************************************************)
EXTENDS Integers, Sequences, FiniteSets, TLC

(***************************************************************************)
(* Bounds of the model.  The constructor's arguments range over            *)
(* 0..MaxPop, -1..MaxChildren, 0..MaxGenerations and None or -1..MaxCap;   *)
(* self.pop is read only to default cap_pool to 2 * pop.  reflect_fn       *)
(* returns lists of up to MaxMuts prompts.  _score_pending applied on its   *)
(* own runs over evaluation sets of up to MaxExamples examples.            *)
(***************************************************************************)
MaxGenerations == 3
MaxPop == 0
MaxChildren == 1
MaxCap == 1
MaxMuts == 2
MaxPoints == 3
MaxPoolLen == 3
MaxExamples == 2

MaxThreshold == 2

MaxTimeout == 1

MaxClock == 3

MaxFailures == 3

MaxRpm == 2

MaxChecks == 4

(***************************************************************************)
(* Python built-ins.                                                       *)
(***************************************************************************)
None == <<>>

Some(x) == <<x>>

Max2(a, b) == IF a >= b THEN a ELSE b

Min2(a, b) == IF a <= b THEN a ELSE b

Abs(n) == IF n < 0 THEN 0 - n ELSE n

RECURSIVE GCD(_, _)
GCD(a, b) == IF b = 0 THEN a ELSE GCD(b, a % b)

\* s[:n]
Slice(s, n) ==
    IF n >= 0 THEN SubSeq(s, 1, Min2(n, Len(s)))
    ELSE SubSeq(s, 1, Max2(0, Len(s) + n))

(***************************************************************************)
(* Floats as exact rationals.                                              *)
(***************************************************************************)
Rat(n, d) ==
    LET k == GCD(Abs(n), d)
    IN  <<n \div k, d \div k>>

RAdd(x, y) == Rat(x[1] * y[2] + y[1] * x[2], x[2] * y[2])

RDivInt(x, n) == Rat(x[1], x[2] * n)

RGe(x, y) == x[1] * y[2] >= y[1] * x[2]

RGt(x, y) == x[1] * y[2] > y[1] * x[2]

RECURSIVE RSum(_)
RSum(xs) == IF xs = <<>> THEN Rat(0, 1) ELSE RAdd(Head(xs), RSum(Tail(xs)))

(***************************************************************************)
(* Python str methods.                                                     *)
(***************************************************************************)
Whitespace == {" "}

LowerChar(c) ==
    IF c = "X" THEN "x" ELSE IF c = "Y" THEN "y" ELSE IF c = "C" THEN "c" ELSE c

Lower(s) == [k \in 1..Len(s) |-> LowerChar(s[k])]

RECURSIVE LStrip(_)
LStrip(s) ==
    IF s # <<>> /\ Head(s) \in Whitespace THEN LStrip(Tail(s)) ELSE s

RECURSIVE RStrip(_)
RStrip(s) ==
    IF s # <<>> /\ s[Len(s)] \in Whitespace
    THEN RStrip(SubSeq(s, 1, Len(s) - 1)) ELSE s

Strip(s) == RStrip(LStrip(s))

RECURSIVE SplitWs(_, _, _)
SplitWs(s, cur, acc) ==
    IF s = <<>> THEN (IF cur = <<>> THEN acc ELSE Append(acc, cur))
    ELSE IF Head(s) \in Whitespace
         THEN SplitWs(Tail(s), <<>>, IF cur = <<>> THEN acc ELSE Append(acc, cur))
         ELSE SplitWs(Tail(s), Append(cur, Head(s)), acc)

\* s.split()
Split(s) == SplitWs(s, <<>>, <<>>)

\* t in s
IsSubstr(t, s) ==
    \E k \in 0..(Len(s) - Len(t)) : SubSeq(s, k + 1, k + Len(t)) = t

RECURSIVE SumOver(_, _)
SumOver(f, S) ==
    IF S = {} THEN 0
    ELSE LET x == CHOOSE x \in S : TRUE
         IN  f[x] + SumOver(f, S \ {x})

\* (x or "")
OrEmpty(x) == IF x = None THEN <<>> ELSE x

(***************************************************************************)
(* theraloop/metrics                                                       *)
(***************************************************************************)
exact_match(pred, gold) ==
    IF Strip(OrEmpty(pred)) = Strip(OrEmpty(gold)) THEN Rat(1, 1) ELSE Rat(0, 1)

grounding_score(pred, sources) ==
    LET pred_l == Lower(OrEmpty(pred))
        src_l  == Lower(OrEmpty(sources))
        toks   == {Split(src_l)[k] : k \in 1..Len(Split(src_l))}
        hits   == Cardinality({t \in toks : t # <<>> /\ IsSubstr(t, pred_l)})
        denom  == Max2(1, Cardinality(toks))
    IN  IF src_l = <<>> THEN Rat(0, 1) ELSE Rat(hits, denom)

RECURSIVE safe_sum(_)
safe_sum(xs) ==
    IF xs = <<>> THEN Rat(0, 1)
    ELSE RAdd(Rat(Head(xs), 1), safe_sum(Tail(xs)))

\* scorer_fn is never passed by _score_prompt: bonus = 0.0, penalty = 0.0
logprob_metric(pred_text, token_logprobs) == safe_sum(token_logprobs)

(***************************************************************************)
(* theraloop/optim/pareto.py                                               *)
(***************************************************************************)
\* dominates without the `any(x > y ...)` conjunct
dominates_GeOnly(a, b) ==
    \A k \in 1..Min2(Len(a), Len(b)) : RGe(a[k], b[k])

\* zip(a, b) pairs the first min(len(a), len(b)) components
dominates(a, b) ==
    LET zipped == 1..Min2(Len(a), Len(b))
    IN  /\ \A k \in zipped : RGe(a[k], b[k])
        /\ \E k \in zipped : RGt(a[k], b[k])

\* pareto_front comparing points[i] with the earlier points only
RECURSIVE FrontLoop_EarlierOnly(_, _, _)
FrontLoop_EarlierOnly(points, i, front) ==
    IF i > Len(points) THEN front
    ELSE IF ~ \E j \in 1..(i - 1) : dominates(points[j], points[i])
         THEN FrontLoop_EarlierOnly(points, i + 1, Append(front, i))
         ELSE FrontLoop_EarlierOnly(points, i + 1, front)

\* the loop of pareto_front from index i on, front being the list built so far
RECURSIVE FrontLoop(_, _, _)
FrontLoop(points, i, front) ==
    IF i > Len(points) THEN front
    ELSE IF ~ \E j \in 1..Len(points) : j # i /\ dominates(points[j], points[i])
         THEN FrontLoop(points, i + 1, Append(front, i))
         ELSE FrontLoop(points, i + 1, front)

pareto_front(points) == FrontLoop(points, 1, <<>>)

(***************************************************************************)
(* The data the optimiser runs on.                                         *)
(***************************************************************************)
Prompts == {"seed", "a", "b"}

SeedPrompts == {"seed"}

Ex1 == [gold |-> <<"4">>, sources |-> <<"X", " ", "x">>]

\* the evaluation sets GEPA is constructed with
EvalSets == {<<>>, <<Ex1>>}

\* what call_fn may return
Outputs ==
    { [text |-> <<"4", " ">>, token_logprobs |-> <<>>],
      [text |-> <<"x">>,      token_logprobs |-> <<-1>>],
      [text |-> <<>>,         token_logprobs |-> <<>>] }

RECURSIVE SeqsUpTo(_, _)
SeqsUpTo(S, n) ==
    IF n = 0 THEN {<<>>}
    ELSE LET shorter == SeqsUpTo(S, n - 1)
         IN  shorter \cup {Append(s, x) : s \in shorter, x \in S}

\* what reflect_fn may return: None or a list of mutated prompts
MutReturns == {None} \cup {Some(m) : m \in SeqsUpTo(Prompts, MaxMuts)}

Candidate(prompt, score, trace) ==
    [prompt |-> prompt, score |-> score, trace |-> trace]

(***************************************************************************)
(* State of one GEPA object and of its run().                              *)
(***************************************************************************)
VARIABLES
    eval_set,      \* self.eval_set
    pop,           \* self.pop
    children,      \* self.children
    generations,   \* self.generations
    cap_pool,      \* self.cap_pool
    pool,          \* self.pool
    pc,            \* position of run()
    g,             \* loop variable of run(); = generations after the loop
    results,       \* local of _score_prompt for the entry being scored
    parents,       \* local of run()
    new_children,  \* local `children` of run()
    j,             \* index of the next parent handed to reflect_fn
    muts,          \* local of run(): `muts` of the parent reflected last
    result,        \* Some(return value of run) once it returned
    err,           \* the exception run() ended in, "" if none
    calls,         \* number of call_fn invocations per (prompt, example)
    seed_prompt,   \* the argument of run(), Some(prompt) once run() was entered
    created,       \* number of child candidates run() created
    scored,        \* number of candidates _score_pending attached a score to
    points,        \* argument of pareto_front / dominates when applied alone
    front_idx,     \* Some(result of pareto_front(points))
    dom,           \* Some(table of dominates(points[a], points[b]))
    gepa_env,      \* router: THERALOOP_USE_GEPA after .lower().strip()
    user_text,     \* router: argument `text` of should_escalate_enhanced
    user_logprobs, \* router: argument `token_logprobs`
    detection,     \* router: what the GEPA detector does when it is asked
    escalate,      \* router: Some(return value of should_escalate_enhanced)
    api_key,       \* adapters: TOGETHER_API_KEY, None if unset
    rate_limit,    \* together.py: TOGETHER_RATE_LIMIT is "true"
    attempt,       \* together.py: loop variable of the retry loop
    attempt_number,\* together_hardened.py: attempts made by the @retry wrapper
    posts,         \* adapters: outcomes of the requests.post calls of one call
    sleeps,        \* together.py: durations handed to time.sleep, in order
    resp,          \* adapters: Some(body of the response that succeeded)
    tg_pc,         \* adapters: position of complete_with_logprobs
    tg_out,        \* adapters: Some(result) once complete_with_logprobs ended
    failure_threshold,  \* CircuitBreaker.failure_threshold
    recovery_timeout,   \* CircuitBreaker.recovery_timeout
    failure_count,      \* CircuitBreaker.failure_count
    last_failure_time,  \* CircuitBreaker.last_failure_time, None or Some(t)
    state,              \* CircuitBreaker.state
    now,                \* time.time()
    requests_per_minute,  \* RateLimiter.requests_per_minute
    requests,      \* RateLimiter.requests: key -> list of request times
    checks,        \* per key, <<time, return value>> of every check_rate_limit
    allowed        \* Some(<<key, return value>>) of the last check_rate_limit

vars == <<eval_set, pop, children, generations, cap_pool, pool, pc, g,
          results, parents, new_children, j, muts, result, err, calls,
          seed_prompt, created, scored, points, front_idx, dom,
          gepa_env, user_text, user_logprobs, detection, escalate,
          api_key, rate_limit, attempt, attempt_number, posts, sleeps, resp,
          tg_pc, tg_out, failure_threshold, recovery_timeout, failure_count,
          last_failure_time, state, now, requests_per_minute, requests,
          checks, allowed>>

cfgvars == <<eval_set, pop, children, generations, cap_pool>>

purevars == <<points, front_idx, dom>>

routervars == <<gepa_env, user_text, user_logprobs, detection, escalate>>

adaptervars == <<api_key, rate_limit, attempt, attempt_number, posts, sleeps,
                 resp, tg_pc, tg_out>>

breakervars == <<failure_threshold, recovery_timeout, failure_count,
                 last_failure_time, state, now>>

limitervars == <<requests_per_minute, requests, checks, allowed>>

svcvars == <<routervars, adaptervars, breakervars, limitervars>>

gepavars == <<cfgvars, purevars, pool, pc, g, results, parents, new_children,
              j, muts, result, err, calls, seed_prompt, created, scored>>

\* the serving layer before any of its functions was called: the module
\* level CircuitBreaker() and RateLimiter() with their default arguments
RouterIdle ==
    /\ gepa_env = "false"
    /\ user_text = <<>>
    /\ user_logprobs = <<>>
    /\ detection = "safe"
    /\ escalate = None

AdapterIdle ==
    /\ api_key = None
    /\ rate_limit = FALSE
    /\ attempt = 0
    /\ attempt_number = 0
    /\ posts = <<>>
    /\ sleeps = <<>>
    /\ resp = None
    /\ tg_pc = "idle"
    /\ tg_out = None

BreakerIdle ==
    /\ failure_threshold = 5
    /\ recovery_timeout = 60
    /\ failure_count = 0
    /\ last_failure_time = None
    /\ state = "closed"
    /\ now = 0

LimiterIdle ==
    /\ requests_per_minute = 10
    /\ requests = [k \in {} |-> <<>>]
    /\ checks = [k \in {} |-> <<>>]
    /\ allowed = None

ServiceIdle == RouterIdle /\ AdapterIdle /\ BreakerIdle /\ LimiterIdle

(***************************************************************************)
(* GEPA.__init__                                                           *)
(***************************************************************************)
CapArgs == {None} \cup {Some(n) : n \in (-1)..MaxCap}

\* cap_pool or (self.pop * 2)
CapOrDefault(a_cap, the_pop) ==
    IF a_cap = None \/ a_cap[1] = 0 THEN the_pop * 2 ELSE a_cap[1]

GEPA_init(a_eval, a_pop, a_children, a_generations, a_cap) ==
    /\ eval_set = a_eval
    /\ pop = Max2(1, a_pop)
    /\ children = Max2(0, a_children)
    /\ generations = Max2(1, a_generations)
    /\ cap_pool = CapOrDefault(a_cap, Max2(1, a_pop))
    /\ pool = <<>>

Init ==
    /\ \E a_eval \in EvalSets, a_pop \in 0..MaxPop,
          a_children \in (-1)..MaxChildren,
          a_generations \in 0..MaxGenerations, a_cap \in CapArgs :
            GEPA_init(a_eval, a_pop, a_children, a_generations, a_cap)
    /\ pc = "init"
    /\ g = 0
    /\ results = <<>>
    /\ parents = <<>>
    /\ new_children = <<>>
    /\ j = 1
    /\ muts = <<>>
    /\ result = None
    /\ err = ""
    /\ calls = [c \in Prompts \X (1..Len(eval_set)) |-> 0]
    /\ seed_prompt = None
    /\ created = 0
    /\ scored = 0
    /\ points = <<>>
    /\ front_idx = None
    /\ dom = None
    /\ ServiceIdle

(***************************************************************************)
(* GEPA._score_prompt and GEPA._score_pending                              *)
(***************************************************************************)
\* a _score_pending without the test `p["score"] is None`: it starts over at
\* the first entry while any entry is unscored
Pending_FromStart(the_pool) ==
    IF \E k \in 1..Len(the_pool) : the_pool[k].score = None THEN 1 ELSE 0

\* the entry the loop of _score_pending is at: the first one with score None
\* (entries before it are scored and stay so), 0 when the loop is over
Pending(the_pool) ==
    IF \E k \in 1..Len(the_pool) : the_pool[k].score = None
    THEN CHOOSE k \in 1..Len(the_pool) :
            /\ the_pool[k].score = None
            /\ \A m \in 1..(k - 1) : the_pool[m].score # None
    ELSE 0

\* one (em, grd, lp, out) tuple of results
ScoreCase(out, ex) ==
    <<exact_match(out.text, ex.gold),
      grounding_score(out.text, ex.sources),
      logprob_metric(out.text, out.token_logprobs),
      out>>

\* avg without the division by n
Average_NoDivide(the_results) ==
    [c \in 1..3 |-> RSum([k \in 1..Len(the_results) |-> the_results[k][c]])]

\* avg dividing by the position in the pool of the entry being scored, a
\* value that differs from one invocation to the next
Average_ByPosition(the_results) ==
    [c \in 1..3 |->
        RDivInt(RSum([k \in 1..Len(the_results) |-> the_results[k][c]]),
                Max2(1, Pending(pool)))]

\* avg of _score_prompt
Average(the_results) ==
    LET n == Max2(1, Len(the_results))
    IN  [c \in 1..3 |->
            RDivInt(RSum([k \in 1..Len(the_results) |-> the_results[k][c]]), n)]

\* traces of _score_prompt
Traces(the_eval, the_results) ==
    [cases |-> [k \in 1..Min2(Len(the_eval), Len(the_results)) |->
                    [ex |-> the_eval[k], out |-> the_results[k][4]]]]

Scoring == pc = "score" /\ Pending(pool) # 0

\* out = self.call_fn(prompt, ex) returns, and the three metrics are taken
CallFn ==
    /\ Scoring
    /\ Len(results) < Len(eval_set)
    /\ \E out \in Outputs :
          results' = Append(results, ScoreCase(out, eval_set[Len(results) + 1]))
    /\ calls' = [calls EXCEPT ![<<pool[Pending(pool)].prompt, Len(results) + 1>>] = @ + 1]
    /\ UNCHANGED svcvars
    /\ UNCHANGED <<cfgvars, purevars, seed_prompt, created, scored, pool, pc,
                   g, parents, new_children, j, muts, result, err>>

\* a _score_prompt that swallows the exception and calls call_fn again
CallFnRaises_Retry ==
    /\ Scoring
    /\ Len(results) < Len(eval_set)
    /\ calls' = [calls EXCEPT ![<<pool[Pending(pool)].prompt, Len(results) + 1>>] = @ + 1]
    /\ err' = "call_fn"
    /\ UNCHANGED svcvars
    /\ UNCHANGED <<cfgvars, purevars, seed_prompt, created, scored, pool, pc,
                   g, results, parents, new_children, j, muts, result>>

\* a _score_pending that attaches the mean of the examples evaluated so far
\* when call_fn raises
CallFnRaises_PartialScore ==
    /\ Scoring
    /\ Len(results) < Len(eval_set)
    /\ calls' = [calls EXCEPT ![<<pool[Pending(pool)].prompt, Len(results) + 1>>] = @ + 1]
    /\ pool' = [pool EXCEPT ![Pending(pool)] =
                    Candidate(@.prompt, Some(Average(results)), None)]
    /\ results' = <<>>
    /\ pc' = "error"
    /\ err' = "call_fn"
    /\ UNCHANGED svcvars
    /\ UNCHANGED <<cfgvars, purevars, seed_prompt, created, scored, g,
                   parents, new_children, j, muts, result>>

\* self.call_fn(prompt, ex) raises: nothing in run() catches it
CallFnRaises ==
    /\ Scoring
    /\ Len(results) < Len(eval_set)
    /\ calls' = [calls EXCEPT ![<<pool[Pending(pool)].prompt, Len(results) + 1>>] = @ + 1]
    /\ results' = <<>>
    /\ pc' = "error"
    /\ err' = "call_fn"
    /\ UNCHANGED svcvars
    /\ UNCHANGED <<cfgvars, purevars, seed_prompt, created, scored, pool, g,
                   parents, new_children, j, muts, result>>

\* _score_prompt returns; p["score"], p["trace"] = avg, trace
AttachScore ==
    /\ Scoring
    /\ Len(results) = Len(eval_set)
    /\ pool' = [pool EXCEPT ![Pending(pool)] =
                    Candidate(@.prompt, Some(Average(results)),
                              Some(Traces(eval_set, results)))]
    /\ results' = <<>>
    /\ scored' = scored + 1
    /\ UNCHANGED svcvars
    /\ UNCHANGED <<cfgvars, purevars, seed_prompt, created, pc, g, parents,
                   new_children, j, muts, result, err, calls>>

(***************************************************************************)
(* GEPA._dedupe_and_cap                                                    *)
(***************************************************************************)
\* whether the loop keeps p: its prompt is not in seen
DedupeKeeps(p, seen) == p.prompt \notin seen

\* the dedupe loop letting a later duplicate replace the entry kept so far
RECURSIVE DedupeLoop_KeepLast(_, _, _, _)
DedupeLoop_KeepLast(the_pool, k, seen, deduped) ==
    IF k > Len(the_pool) THEN deduped
    ELSE IF DedupeKeeps(the_pool[k], seen)
         THEN DedupeLoop_KeepLast(the_pool, k + 1, seen \cup {the_pool[k].prompt},
                                  Append(deduped, the_pool[k]))
         ELSE DedupeLoop_KeepLast(the_pool, k + 1, seen,
                  [m \in 1..Len(deduped) |->
                      IF deduped[m].prompt = the_pool[k].prompt
                      THEN the_pool[k] ELSE deduped[m]])

\* the loop over self.pool from index k on
RECURSIVE DedupeLoop(_, _, _, _)
DedupeLoop(the_pool, k, seen, deduped) ==
    IF k > Len(the_pool) THEN deduped
    ELSE IF DedupeKeeps(the_pool[k], seen)
         THEN DedupeLoop(the_pool, k + 1, seen \cup {the_pool[k].prompt},
                         Append(deduped, the_pool[k]))
         ELSE DedupeLoop(the_pool, k + 1, seen, deduped)

Dedupe(the_pool) == DedupeLoop(the_pool, 1, {}, <<>>)

IsScored(p) == p.score # None

IsUnscored(p) == p.score = None

\* _dedupe_and_cap without the sort
SortScoredFirst_NoSort(deduped) == deduped

\* deduped.sort(key=lambda x: (x["score"] is None,)): a stable sort on a
\* boolean key, False before True
SortScoredFirst(deduped) ==
    SelectSeq(deduped, IsScored) \o SelectSeq(deduped, IsUnscored)

\* _dedupe_and_cap without the slice
dedupe_and_cap_NoCap(the_pool, the_cap) == SortScoredFirst(Dedupe(the_pool))

dedupe_and_cap(the_pool, the_cap) ==
    Slice(SortScoredFirst(Dedupe(the_pool)), the_cap)

(***************************************************************************)
(* GEPA.run                                                                *)
(***************************************************************************)
Run(the_seed) ==
    /\ pc = "init"
    /\ pool' = <<Candidate(the_seed, None, None)>>
    /\ pc' = "score"
    /\ g' = 0
    /\ seed_prompt' = Some(the_seed)
    /\ UNCHANGED svcvars
    /\ UNCHANGED <<cfgvars, purevars, created, scored, results, parents,
                   new_children, j, muts, result, err, calls>>

\* parents holding the first front member only
FrontOf_FirstOnly(the_pool) ==
    LET scores == [k \in 1..Len(the_pool) |-> the_pool[k].score[1]]
        fidx   == pareto_front(scores)
    IN  [k \in 1..Min2(1, Len(fidx)) |-> the_pool[fidx[k]]]

FrontOf(the_pool) ==
    LET scores == [k \in 1..Len(the_pool) |-> the_pool[k].score[1]]
        fidx   == pareto_front(scores)
    IN  [k \in 1..Len(fidx) |-> the_pool[fidx[k]]]

Selecting == pc = "score" /\ Pending(pool) = 0 /\ g < generations

\* the branch of step 4) taken without the test `self.children > 0`
Select_IgnoreChildren ==
    /\ Selecting
    /\ parents' = FrontOf(pool)
    /\ new_children' = <<>>
    /\ j' = 1
    /\ pc' = IF g < generations - 1 THEN "reflect" ELSE "final"
    /\ UNCHANGED svcvars
    /\ UNCHANGED <<cfgvars, purevars, seed_prompt, created, scored, pool, g,
                   results, muts, result, err, calls>>

\* the branch of step 4) taken without the test `g < self.generations - 1`
Select_IgnoreGeneration ==
    /\ Selecting
    /\ parents' = FrontOf(pool)
    /\ new_children' = <<>>
    /\ j' = 1
    /\ pc' = IF children > 0 THEN "reflect" ELSE "final"
    /\ UNCHANGED svcvars
    /\ UNCHANGED <<cfgvars, purevars, seed_prompt, created, scored, pool, g,
                   results, muts, result, err, calls>>

\* steps 2) and 3) of the loop body, log_gepa_step returning normally
Select ==
    /\ Selecting
    /\ parents' = FrontOf(pool)
    /\ new_children' = <<>>
    /\ j' = 1
    /\ pc' = IF g < generations - 1 /\ children > 0 THEN "reflect" ELSE "final"
    /\ UNCHANGED svcvars
    /\ UNCHANGED <<cfgvars, purevars, seed_prompt, created, scored, pool, g,
                   results, muts, result, err, calls>>

\* log_gepa_step(g, parents) raises in one of its mlflow.log_metric calls,
\* of which there is none for an empty front: nothing in run() catches it
ObserverRaises ==
    /\ Selecting
    /\ FrontOf(pool) # <<>>
    /\ parents' = FrontOf(pool)
    /\ pc' = "error"
    /\ err' = "log_gepa_step"
    /\ UNCHANGED svcvars
    /\ UNCHANGED <<cfgvars, purevars, seed_prompt, created, scored, pool, g,
                   results, new_children, j, muts, result, calls>>

\* muts = self.reflect_fn(par["prompt"], par["trace"]) or []
MutsOrEmpty(ret) == IF ret = None \/ ret[1] = <<>> THEN <<>> ELSE ret[1]

\* a child for every returned mutation, without the slice
ChildrenOf_All(the_muts, the_children) ==
    [k \in 1..Len(the_muts) |-> Candidate(the_muts[k], None, None)]

\* for m in muts[: self.children]: children.append({...})
ChildrenOf(the_muts, the_children) ==
    [k \in 1..Len(Slice(the_muts, the_children)) |->
        Candidate(Slice(the_muts, the_children)[k], None, None)]

ReflectFn ==
    /\ pc = "reflect"
    /\ j <= Len(parents)
    /\ \E ret \in MutReturns :
          /\ muts' = MutsOrEmpty(ret)
          /\ new_children' = new_children \o ChildrenOf(MutsOrEmpty(ret), children)
          /\ created' = created + Len(ChildrenOf(MutsOrEmpty(ret), children))
    /\ j' = j + 1
    /\ UNCHANGED svcvars
    /\ UNCHANGED <<cfgvars, purevars, seed_prompt, scored, pool, pc, g,
                   results, parents, result, err, calls>>

\* self.reflect_fn(...) raises: nothing in run() catches it
ReflectFnRaises ==
    /\ pc = "reflect"
    /\ j <= Len(parents)
    /\ pc' = "error"
    /\ err' = "reflect_fn"
    /\ UNCHANGED svcvars
    /\ UNCHANGED <<cfgvars, purevars, seed_prompt, created, scored, pool, g,
                   results, parents, new_children, j, muts, result, calls>>

\* self.pool = children + parents
Reseed_ChildrenFirst ==
    /\ pc = "reflect"
    /\ j > Len(parents)
    /\ pool' = dedupe_and_cap(new_children \o parents, cap_pool)
    /\ g' = g + 1
    /\ pc' = "score"
    /\ UNCHANGED svcvars
    /\ UNCHANGED <<cfgvars, purevars, seed_prompt, created, scored, results,
                   parents, new_children, j, muts, result, err, calls>>

\* a reseed that goes back to scoring before selection has the front
\* reflected once more
Reseed_ScoreMidGeneration ==
    /\ pc = "reflect"
    /\ j > Len(parents)
    /\ pool' = dedupe_and_cap(parents \o new_children, cap_pool)
    /\ g' = g
    /\ pc' = "score"
    /\ UNCHANGED svcvars
    /\ UNCHANGED <<cfgvars, purevars, seed_prompt, created, scored, results,
                   parents, new_children, j, muts, result, err, calls>>

\* self.pool = parents + children; self._dedupe_and_cap()
Reseed ==
    /\ pc = "reflect"
    /\ j > Len(parents)
    /\ pool' = dedupe_and_cap(parents \o new_children, cap_pool)
    /\ g' = g + 1
    /\ pc' = "score"
    /\ UNCHANGED svcvars
    /\ UNCHANGED <<cfgvars, purevars, seed_prompt, created, scored, results,
                   parents, new_children, j, muts, result, err, calls>>

\* self.pool = parents; self._dedupe_and_cap()
Finalize ==
    /\ pc = "final"
    /\ pool' = dedupe_and_cap(parents, cap_pool)
    /\ g' = g + 1
    /\ pc' = "score"
    /\ UNCHANGED svcvars
    /\ UNCHANGED <<cfgvars, purevars, seed_prompt, created, scored, results,
                   parents, new_children, j, muts, result, err, calls>>

\* the key with grounding and exact match swapped
ChampKey_GroundingFirst(p) == <<p.score[1][2], p.score[1][1], p.score[1][3]>>

\* the key of max(): (p["score"][0], p["score"][1], p["score"][2])
ChampKey(p) == <<p.score[1][1], p.score[1][2], p.score[1][3]>>

\* Python's order on tuples of equal length: the first differing component decides
LexGt(a, b) ==
    \E k \in 1..Len(a) :
        /\ RGt(a[k], b[k])
        /\ \A m \in 1..(k - 1) : a[m] = b[m]

\* max() scanning from index k on, best being the item kept so far: a later
\* item replaces it only when its key is strictly greater
RECURSIVE MaxLoop(_, _, _)
MaxLoop(the_pool, k, best) ==
    IF k > Len(the_pool) THEN best
    ELSE IF LexGt(ChampKey(the_pool[k]), ChampKey(best))
         THEN MaxLoop(the_pool, k + 1, the_pool[k])
         ELSE MaxLoop(the_pool, k + 1, best)

\* max(self.pool, key=...) of a non-empty pool
Champion(the_pool) == MaxLoop(the_pool, 2, the_pool[1])

AfterLoop == pc = "score" /\ Pending(pool) = 0 /\ g = generations

ChampionSelect ==
    /\ AfterLoop
    /\ pool # <<>>
    /\ result' = Some(Champion(pool).prompt)
    /\ pc' = "done"
    /\ UNCHANGED svcvars
    /\ UNCHANGED <<cfgvars, purevars, seed_prompt, created, scored, pool, g,
                   results, parents, new_children, j, muts, err, calls>>

\* max() of an empty sequence raises ValueError
ChampionEmpty ==
    /\ AfterLoop
    /\ pool = <<>>
    /\ pc' = "error"
    /\ err' = "ValueError"
    /\ UNCHANGED svcvars
    /\ UNCHANGED <<cfgvars, purevars, seed_prompt, created, scored, pool, g,
                   results, parents, new_children, j, muts, result, calls>>

Next ==
    \/ \E the_seed \in SeedPrompts : Run(the_seed)
    \/ CallFn
    \/ CallFnRaises
    \/ AttachScore
    \/ Select
    \/ ObserverRaises
    \/ ReflectFn
    \/ ReflectFnRaises
    \/ Reseed
    \/ Finalize
    \/ ChampionSelect
    \/ ChampionEmpty

Spec == Init /\ [][Next]_vars

(***************************************************************************)
(* pareto.py applied on its own to bounded lists of score tuples.          *)
(***************************************************************************)
ScoreTuples ==
    {<<Rat(x, 1), Rat(y, 1), Rat(z, 1)>> : x \in 0..1, y \in 0..1, z \in 0..1}
        \cup {<<Rat(1, 2), Rat(1, 2), Rat(1, 2)>>}

\* the locals and the bookkeeping of a GEPA object that is not running
RunIdle ==
    /\ g = 0
    /\ results = <<>>
    /\ parents = <<>>
    /\ new_children = <<>>
    /\ j = 1
    /\ muts = <<>>
    /\ result = None
    /\ err = ""
    /\ calls = [c \in {} |-> 0]
    /\ seed_prompt = None
    /\ created = 0
    /\ scored = 0

InitPareto ==
    /\ GEPA_init(<<>>, 1, 0, 1, None)
    /\ RunIdle
    /\ pc = "pareto"
    /\ points \in SeqsUpTo(ScoreTuples, MaxPoints)
    /\ front_idx = None
    /\ dom = None
    /\ ServiceIdle

ApplyParetoFront ==
    /\ pc = "pareto"
    /\ front_idx = None
    /\ front_idx' = Some(pareto_front(points))
    /\ UNCHANGED svcvars
    /\ UNCHANGED <<cfgvars, pool, pc, g, results, parents, new_children, j,
                   muts, result, err, calls, seed_prompt, created, scored,
                   points, dom>>

ApplyDominates ==
    /\ pc = "pareto"
    /\ dom = None
    /\ dom' = Some([a \in 1..Len(points) |->
                    [b \in 1..Len(points) |-> dominates(points[a], points[b])]])
    /\ UNCHANGED svcvars
    /\ UNCHANGED <<cfgvars, pool, pc, g, results, parents, new_children, j,
                   muts, result, err, calls, seed_prompt, created, scored,
                   points, front_idx>>

NextPareto == ApplyParetoFront \/ ApplyDominates

SpecPareto == InitPareto /\ [][NextPareto]_vars

(***************************************************************************)
(* _dedupe_and_cap applied on its own to bounded pools.                    *)
(***************************************************************************)
PoolScores == {<<Rat(1, 1), Rat(0, 1), Rat(0, 1)>>, <<Rat(0, 1), Rat(1, 1), Rat(-1, 1)>>}

PoolCandidates ==
    {Candidate(p, None, None) : p \in Prompts}
        \cup {Candidate(p, Some(sc), Some([cases |-> <<>>])) :
                    p \in Prompts, sc \in PoolScores}

\* the state right after an assignment `self.pool = ...` of any list of
\* candidates; self.cap_pool is never 0, __init__ replaces 0 by the default
InitDedupe ==
    /\ eval_set = <<>>
    /\ pop = 1
    /\ children = 0
    /\ generations = 1
    /\ cap_pool \in ((-1)..(MaxCap + 1)) \ {0}
    /\ parents \in SeqsUpTo(PoolCandidates, MaxPoolLen)
    /\ pool = parents
    /\ new_children = <<>>
    /\ g = 0
    /\ results = <<>>
    /\ j = 1
    /\ muts = <<>>
    /\ result = None
    /\ err = ""
    /\ calls = [c \in {} |-> 0]
    /\ seed_prompt = None
    /\ created = 0
    /\ scored = 0
    /\ pc = "dedupe"
    /\ points = <<>>
    /\ front_idx = None
    /\ dom = None
    /\ ServiceIdle

ApplyDedupeAndCap ==
    /\ pc = "dedupe"
    /\ pool' = dedupe_and_cap(pool, cap_pool)
    /\ pc' = "deduped"
    /\ UNCHANGED svcvars
    /\ UNCHANGED <<cfgvars, purevars, g, results, parents, new_children, j,
                   muts, result, err, calls, seed_prompt, created, scored>>

NextDedupe == ApplyDedupeAndCap

SpecDedupe == InitDedupe /\ [][NextDedupe]_vars

(***************************************************************************)
(* _score_pending applied on its own to pools of unscored candidates, over *)
(* evaluation sets whose gold answers may be empty or blank.               *)
(***************************************************************************)
Golds == {<<"4">>, <<>>}

ScoreExamples == {[gold |-> gd, sources |-> <<"X", " ", "x">>] : gd \in Golds}

\* an example whose gold answer is blank
ExBlank == [gold |-> <<" ">>, sources |-> <<"X", " ", "x">>]

ScoreEvalSets == SeqsUpTo(ScoreExamples, MaxExamples) \cup {<<ExBlank>>}

\* pools of candidates with score None, a prompt occurring twice
ScorePools ==
    { <<Candidate("seed", None, None)>>,
      <<Candidate("seed", None, None), Candidate("seed", None, None)>>,
      <<Candidate("seed", None, None), Candidate("a", None, None),
        Candidate("seed", None, None)>> }

InitScore ==
    /\ eval_set \in ScoreEvalSets
    /\ pop = 1
    /\ children = 0
    /\ generations = 1
    /\ cap_pool = 2
    /\ pool \in ScorePools
    /\ pc = "score"
    /\ g = 0
    /\ results = <<>>
    /\ parents = <<>>
    /\ new_children = <<>>
    /\ j = 1
    /\ muts = <<>>
    /\ result = None
    /\ err = ""
    /\ calls = [c \in Prompts \X (1..Len(eval_set)) |-> 0]
    /\ seed_prompt = None
    /\ created = 0
    /\ scored = 0
    /\ points = <<>>
    /\ front_idx = None
    /\ dom = None
    /\ ServiceIdle

NextScore == CallFn \/ CallFnRaises \/ AttachScore

SpecScore == InitScore /\ [][NextScore]_vars

(***************************************************************************)
(* serving/router.py and serving/gepa_detection.py: the escalation         *)
(* decision for one message.                                               *)
(***************************************************************************)
\* float(os.getenv("THERALOOP_CONFIDENCE_THRESHOLD", "-30.0")), the default
THRESH == -30

CRISIS_KEYWORDS ==
    <<
       <<"s","u","i","c","i","d","e">>,
       <<"k","i","l","l"," ","m","y","s","e","l","f">>,
       <<"e","n","d"," ","m","y"," ","l","i","f","e">>,
       <<"s","e","l","f","-","h","a","r","m">>,
       <<"h","u","r","t"," ","m","y","s","e","l","f">>,
       <<"p","a","n","i","c"," ","a","t","t","a","c","k">>,
       <<"c","r","i","s","i","s">>,
       <<"e","m","e","r","g","e","n","c","y">>,
       <<"c","a","n","'","t"," ","b","r","e","a","t","h","e">>,
       <<"o","v","e","r","d","o","s","e">>,
       <<"c","u","t","t","i","n","g">>,
       <<"h","a","r","m","i","n","g"," ","m","y","s","e","l","f">>,
       <<"w","a","n","t"," ","t","o"," ","d","i","e">>,
       <<"d","o","n","'","t"," ","w","a","n","t"," ","t","o"," ","l","i","v","e">>,
       <<"l","i","f","e"," ","i","s","n","'","t"," ","w","o","r","t","h">>
    >>

\* values of THERALOOP_USE_GEPA after .lower().strip()
GepaEnvs == {"true", "1", "yes", "on", "false", "off"}

UserTexts ==
    { <<>>,
      <<" ">>,
      <<"o", "k">>,
      <<"c", "r", "i", "s", "i", "s">>,
      <<"C", "r", "i", "s", "i", "s", " ">>,
      <<"i", " ", "w", "a", "n", "t", " ", "t", "o", " ", "d", "i", "e">> }

LogprobLists == {<<>>, <<-30>>, <<-31>>, <<-20, -20>>}

\* what the detector does when detect_crisis_gepa reaches it:
\* _initialize_detector() returns None, detector(user_text=...) raises, or
\* the prediction carries one of the three classifications
Detections == {"init_fails", "call_raises", "crisis", "moderate_risk", "safe"}

detect_crisis_gepa(the_text, the_detection) ==
    IF the_text = <<>> \/ Strip(the_text) = <<>>
    THEN [classification |-> "safe", should_escalate |-> FALSE]
    ELSE IF the_detection = "init_fails"
    THEN [classification |-> "safe", should_escalate |-> FALSE]
    ELSE IF the_detection = "call_raises"
    THEN [classification |-> "safe", should_escalate |-> FALSE]
    ELSE [classification |-> the_detection,
          should_escalate |-> the_detection \in {"crisis", "moderate_risk"}]

\* the call should_escalate_gepa(text) as its caller sees it: every failure
\* of the detector is caught inside detect_crisis_gepa, so it never raises
should_escalate_gepa(the_text, the_detection) ==
    LET res == detect_crisis_gepa(the_text, the_detection)
    IN  [raised |-> FALSE, value |-> res.should_escalate]

should_escalate(the_logprobs, the_text) ==
    IF RGt(Rat(THRESH, 1), safe_sum(the_logprobs)) THEN TRUE
    ELSE IF the_text # <<>>
    THEN \E k \in DOMAIN CRISIS_KEYWORDS :
            IsSubstr(CRISIS_KEYWORDS[k], Lower(the_text))
    ELSE FALSE

use_gepa(the_env) == the_env \in {"true", "1", "yes", "on"}

should_escalate_enhanced(the_logprobs, the_text, the_env, the_detection) ==
    IF use_gepa(the_env) /\ the_text # <<>>
    THEN LET gepa_result == should_escalate_gepa(the_text, the_detection)
         IN  IF gepa_result.raised
             THEN should_escalate(the_logprobs, the_text)
             ELSE gepa_result.value
    ELSE should_escalate(the_logprobs, the_text)

\* a GEPA object that was constructed and is not used
GepaIdle ==
    /\ GEPA_init(<<>>, 1, 0, 1, None)
    /\ RunIdle
    /\ points = <<>>
    /\ front_idx = None
    /\ dom = None

InitRouter ==
    /\ GepaIdle
    /\ pc = "router"
    /\ gepa_env \in GepaEnvs
    /\ user_text \in UserTexts
    /\ user_logprobs \in LogprobLists
    /\ detection \in Detections
    /\ escalate = None
    /\ AdapterIdle
    /\ BreakerIdle
    /\ LimiterIdle

ShouldEscalateEnhanced ==
    /\ pc = "router"
    /\ escalate = None
    /\ escalate' = Some(should_escalate_enhanced(user_logprobs, user_text,
                                                 gepa_env, detection))
    /\ UNCHANGED <<gepavars, adaptervars, breakervars, limitervars>>
    /\ UNCHANGED <<gepa_env, user_text, user_logprobs, detection>>

NextRouter == ShouldEscalateEnhanced

SpecRouter == InitRouter /\ [][NextRouter]_vars

(***************************************************************************)
(* adapters/together.py: one call of complete_with_logprobs.               *)
(***************************************************************************)
max_retries == 3

\* a body that is not JSON: r.json() raises
NotJson == [valid |-> FALSE, choices |-> <<>>]

\* bodies of a 200 response: the first is not JSON, the others are the
\* decoded data; an absent key or a JSON null is None
ResponseBodies ==
    { NotJson,
      [valid |-> TRUE, choices |-> <<>>],
      [valid |-> TRUE, choices |-> <<[message |-> Some(<<"o", "k">>), logprobs |-> None]>>],
      [valid |-> TRUE, choices |-> <<[message |-> None,
                      logprobs |-> Some([token_logprobs |-> Some(<<-1, -2>>),
                                         content |-> None])]>>],
      [valid |-> TRUE, choices |-> <<[message |-> Some(<<"4">>),
                      logprobs |-> Some([token_logprobs |-> None,
                                         content |-> Some(<<Some(-1), None>>)])]>>],
      [valid |-> TRUE, choices |-> <<[message |-> Some(<<>>),
                      logprobs |-> Some([token_logprobs |-> None,
                                         content |-> None])]>>] }

\* what requests.post followed by r.raise_for_status() can do
PostOutcomes ==
    {[kind |-> "response", status |-> 200, body |-> b] : b \in ResponseBodies}
        \cup {[kind |-> "response", status |-> c, body |-> NotJson] :
                    c \in {401, 429, 500}}
        \cup {[kind |-> e, status |-> 0, body |-> NotJson] :
                    e \in {"ConnectionError", "Timeout"}}

NoValue == [text |-> <<>>, token_logprobs |-> <<>>, tokens |-> <<>>]

\* how a call ended: an exception (its class and, for an HTTPError, the
\* status code) or a returned dict
Raise(exc) == [kind |-> "raise", exc |-> exc, value |-> NoValue]

Return(v) == [kind |-> "return", exc |-> <<"", 0>>, value |-> v]

\* the exception a failed post leaves complete_with_logprobs with
PostError(o) ==
    IF o.kind = "response" THEN Raise(<<"HTTPError", o.status>>)
    ELSE Raise(<<o.kind, 0>>)

\* e.response.status_code == 429 and attempt < max_retries, retrying on any
\* HTTP error instead
Retried_AnyStatus(o, the_attempt) ==
    o.kind = "response" /\ o.status # 200 /\ the_attempt < max_retries

\* e.response.status_code == 429 and attempt < max_retries
Retried(o, the_attempt) ==
    o.kind = "response" /\ o.status = 429 /\ the_attempt < max_retries

\* the logprobs of the items of logprobs["content"] that carry one
RECURSIVE ContentLogprobs(_)
ContentLogprobs(items) ==
    IF items = <<>> THEN <<>>
    ELSE (IF Head(items) = None THEN <<>> ELSE <<Head(items)[1]>>)
            \o ContentLogprobs(Tail(items))

\* lines 66-98: parse the response of the request that succeeded
ParseResponse(body) ==
    IF ~ body.valid THEN Raise(<<"JSONDecodeError", 0>>)
    ELSE IF body.choices = <<>> THEN Raise(<<"IndexError", 0>>)
    ELSE LET choice == body.choices[1]
             lps == choice.logprobs
             token_lps ==
                 IF lps = None THEN <<>>
                 ELSE IF lps[1].token_logprobs # None
                      THEN lps[1].token_logprobs[1]
                 ELSE IF lps[1].content # None
                      THEN ContentLogprobs(lps[1].content[1])
                 ELSE <<>>
             the_text == IF choice.message = None THEN <<>>
                         ELSE choice.message[1]
         IN  Return([text |-> the_text, token_logprobs |-> token_lps,
                     tokens |-> <<>>])

\* time.sleep(1) ahead of a request when TOGETHER_RATE_LIMIT is "true"
Throttle == IF rate_limit THEN <<1>> ELSE <<>>

InitTogether ==
    /\ GepaIdle
    /\ pc = "adapter"
    /\ RouterIdle
    /\ BreakerIdle
    /\ LimiterIdle
    /\ api_key \in {None, Some(""), Some("key")}
    /\ rate_limit \in BOOLEAN
    /\ attempt = 0
    /\ attempt_number = 0
    /\ posts = <<>>
    /\ sleeps = <<>>
    /\ resp = None
    /\ tg_pc = "call"
    /\ tg_out = None

\* lines 15-25: os.getenv("TOGETHER_API_KEY"), raise ValueError without it
TogetherNoKey ==
    /\ tg_pc = "call"
    /\ api_key = None \/ api_key = Some("")
    /\ tg_pc' = "done"
    /\ tg_out' = Some(Raise(<<"ValueError", 0>>))
    /\ UNCHANGED <<gepavars, routervars, breakervars, limitervars>>
    /\ UNCHANGED <<api_key, rate_limit, attempt, attempt_number, posts,
                   sleeps, resp>>

\* lines 27-41: build the payload and enter the retry loop
TogetherEnterLoop ==
    /\ tg_pc = "call"
    /\ api_key # None /\ api_key # Some("")
    /\ tg_pc' = "loop"
    /\ attempt' = 0
    /\ UNCHANGED <<gepavars, routervars, breakervars, limitervars>>
    /\ UNCHANGED <<api_key, rate_limit, attempt_number, posts, sleeps, resp,
                   tg_out>>

\* lines 42-49: the request succeeded, break
TogetherPostOk ==
    /\ tg_pc = "loop"
    /\ \E o \in PostOutcomes :
        /\ o.kind = "response" /\ o.status = 200
        /\ posts' = Append(posts, o)
        /\ resp' = Some(o.body)
    /\ sleeps' = sleeps \o Throttle
    /\ tg_pc' = "parse"
    /\ UNCHANGED <<gepavars, routervars, breakervars, limitervars>>
    /\ UNCHANGED <<api_key, rate_limit, attempt, attempt_number, tg_out>>

\* lines 51-57: rate limited, sleep base_delay * 2 ** attempt (plus a random
\* fraction of a second) and continue with the next attempt
TogetherPostRetry ==
    /\ tg_pc = "loop"
    /\ \E o \in PostOutcomes :
        /\ ~ (o.kind = "response" /\ o.status = 200)
        /\ Retried(o, attempt)
        /\ posts' = Append(posts, o)
    /\ sleeps' = (sleeps \o Throttle) \o <<2 ^ attempt>>
    /\ attempt' = attempt + 1
    /\ UNCHANGED <<gepavars, routervars, breakervars, limitervars>>
    /\ UNCHANGED <<api_key, rate_limit, attempt_number, resp, tg_pc, tg_out>>

\* lines 58-63: every other failure is raised
TogetherPostRaises ==
    /\ tg_pc = "loop"
    /\ \E o \in PostOutcomes :
        /\ ~ (o.kind = "response" /\ o.status = 200)
        /\ ~ Retried(o, attempt)
        /\ posts' = Append(posts, o)
        /\ tg_out' = Some(PostError(o))
    /\ sleeps' = sleeps \o Throttle
    /\ tg_pc' = "done"
    /\ UNCHANGED <<gepavars, routervars, breakervars, limitervars>>
    /\ UNCHANGED <<api_key, rate_limit, attempt, attempt_number, resp>>

\* lines 65-98
TogetherParse ==
    /\ tg_pc = "parse"
    /\ tg_out' = Some(ParseResponse(resp[1]))
    /\ tg_pc' = "done"
    /\ UNCHANGED <<gepavars, routervars, breakervars, limitervars>>
    /\ UNCHANGED <<api_key, rate_limit, attempt, attempt_number, posts,
                   sleeps, resp>>

NextTogether ==
    \/ TogetherNoKey
    \/ TogetherEnterLoop
    \/ TogetherPostOk
    \/ TogetherPostRetry
    \/ TogetherPostRaises
    \/ TogetherParse

SpecTogether == InitTogether /\ [][NextTogether]_vars

(***************************************************************************)
(* adapters/together_hardened.py: the CircuitBreaker and the calls of      *)
(* complete_with_logprobs that go through the module's breaker. The        *)
(* breaker's methods are also called directly, in any order, between two   *)
(* calls of the adapter.                                                   *)
(***************************************************************************)
stop_after_attempt == 3

\* the exception classes @retry retries on, and their subclasses
RetryTypes ==
    {"RequestException", "HTTPError", "ConnectionError", "Timeout",
     "ValueError", "JSONDecodeError"}

\* bodies of a 200 response of the completions endpoint
HardenedBodies ==
    { NotJson,
      [valid |-> TRUE, choices |-> <<>>],
      [valid |-> TRUE,
       choices |-> <<[text |-> Some(<<"4">>),
                      logprobs |-> Some([token_logprobs |-> Some(<<-1>>),
                                         tokens |-> Some(<<"4">>)])]>>],
      [valid |-> TRUE,
       choices |-> <<[text |-> None, logprobs |-> None]>>] }

HardenedOutcomes ==
    {[kind |-> "response", status |-> 200, body |-> b] : b \in HardenedBodies}
        \cup {[kind |-> "response", status |-> c, body |-> NotJson] :
                    c \in {429, 500}}
        \cup {[kind |-> e, status |-> 0, body |-> NotJson] :
                    e \in {"ConnectionError", "Timeout"}}

\* the exception the try block of lines 124-147 ends in, "" if it ends in
\* `return result`
TryFailure(o) ==
    IF o.kind # "response" THEN o.kind
    ELSE IF o.status # 200 THEN "HTTPError"
    ELSE IF ~ o.body.valid THEN "JSONDecodeError"
    ELSE IF o.body.choices = <<>> THEN "ValueError"
    ELSE ""

\* lines 132-139, score_only not set
HardenedResult(body) ==
    LET choice == body.choices[1]
        meta   == choice.logprobs
    IN  [text |-> OrEmpty(choice.text),
         token_logprobs |->
             IF meta = None THEN <<>> ELSE OrEmpty(meta[1].token_logprobs),
         tokens |-> IF meta = None THEN <<>> ELSE OrEmpty(meta[1].tokens)]

\* _mock_complete(...): a canned text and random logprobs, kept as its kind
Mock == [kind |-> "mock", exc |-> <<"", 0>>, value |-> NoValue]

\* what the body of complete_with_logprobs hands to the @retry wrapper after
\* a request: `except Exception` turns every failure into the mock's return
BodyOutcome(o) ==
    IF TryFailure(o) = "" THEN Return(HardenedResult(o.body)) ELSE Mock

\* the @retry wrapper calls the body again when it raised one of RetryTypes
\* and fewer than stop_after_attempt attempts were made
WrapperRetries(out, the_attempts) ==
    /\ out.kind = "raise"
    /\ out.exc[1] \in RetryTypes
    /\ the_attempts < stop_after_attempt

\* time.time() - self.last_failure_time > self.recovery_timeout
Elapsed ==
    /\ last_failure_time # None
    /\ last_failure_time[1] # 0
    /\ now - last_failure_time[1] > recovery_timeout

\* CircuitBreaker.is_open(): the value it returns
is_open == state = "open" /\ ~ Elapsed

\* CircuitBreaker.is_open(): the state it leaves
is_open_state == IF state = "open" /\ Elapsed THEN "half-open" ELSE state

\* CircuitBreaker.call_succeeded()
call_succeeded ==
    /\ failure_count' = 0
    /\ state' = "closed"
    /\ UNCHANGED <<failure_threshold, recovery_timeout, last_failure_time,
                   now>>

\* CircuitBreaker.call_failed()
call_failed ==
    /\ failure_count' = failure_count + 1
    /\ last_failure_time' = Some(now)
    /\ state' = IF failure_count + 1 >= failure_threshold THEN "open"
                ELSE state
    /\ UNCHANGED <<failure_threshold, recovery_timeout, now>>

InitHardened ==
    /\ GepaIdle
    /\ pc = "adapter"
    /\ RouterIdle
    /\ LimiterIdle
    /\ failure_threshold \in 1..MaxThreshold
    /\ recovery_timeout \in 0..MaxTimeout
    /\ failure_count = 0
    /\ last_failure_time = None
    /\ state = "closed"
    /\ now = 1
    /\ api_key \in {None, Some("key")}
    /\ rate_limit = FALSE
    /\ attempt = 0
    /\ attempt_number = 0
    /\ posts = <<>>
    /\ sleeps = <<>>
    /\ resp = None
    /\ tg_pc = "call"
    /\ tg_out = None

\* lines 85-87: the breaker is open, the mock answers
HardenedShortCircuit ==
    /\ tg_pc = "call"
    /\ is_open
    /\ attempt_number' = attempt_number + 1
    /\ tg_out' = Some(Mock)
    /\ tg_pc' = "done"
    /\ UNCHANGED <<gepavars, routervars, limitervars, breakervars>>
    /\ UNCHANGED <<api_key, rate_limit, attempt, posts, sleeps, resp>>

\* lines 85-97: the breaker lets the call pass, there is no API key
HardenedNoKey ==
    /\ tg_pc = "call"
    /\ ~ is_open
    /\ api_key = None
    /\ state' = is_open_state
    /\ attempt_number' = attempt_number + 1
    /\ tg_out' = Some(Mock)
    /\ tg_pc' = "done"
    /\ UNCHANGED <<gepavars, routervars, limitervars>>
    /\ UNCHANGED <<failure_threshold, recovery_timeout, failure_count,
                   last_failure_time, now>>
    /\ UNCHANGED <<api_key, rate_limit, attempt, posts, sleeps, resp>>

\* lines 85-122: the breaker lets the call pass, the payload is built
HardenedProceed ==
    /\ tg_pc = "call"
    /\ ~ is_open
    /\ api_key # None
    /\ state' = is_open_state
    /\ attempt_number' = attempt_number + 1
    /\ tg_pc' = "request"
    /\ UNCHANGED <<gepavars, routervars, limitervars>>
    /\ UNCHANGED <<failure_threshold, recovery_timeout, failure_count,
                   last_failure_time, now>>
    /\ UNCHANGED <<api_key, rate_limit, attempt, posts, sleeps, resp, tg_out>>

\* the position after the body ended with `out`: the wrapper calls it again
\* or hands its outcome to the caller
AfterBody(out) == IF WrapperRetries(out, attempt_number) THEN "call" ELSE "done"

\* lines 124-147: the request succeeded and the response has a choice
HardenedRequestOk ==
    /\ tg_pc = "request"
    /\ \E o \in HardenedOutcomes :
        /\ TryFailure(o) = ""
        /\ posts' = Append(posts, o)
        /\ resp' = Some(o.body)
        /\ tg_out' = Some(BodyOutcome(o))
        /\ tg_pc' = AfterBody(BodyOutcome(o))
    /\ call_succeeded
    /\ UNCHANGED <<gepavars, routervars, limitervars>>
    /\ UNCHANGED <<api_key, rate_limit, attempt, attempt_number, sleeps>>

\* lines 124-130 and 149-153: the request or the decoding of its response
\* failed; the failure is counted and the mock answers
HardenedRequestFails ==
    /\ tg_pc = "request"
    /\ failure_count < MaxFailures
    /\ \E o \in HardenedOutcomes :
        /\ TryFailure(o) # ""
        /\ posts' = Append(posts, o)
        /\ tg_out' = Some(BodyOutcome(o))
        /\ tg_pc' = AfterBody(BodyOutcome(o))
    /\ call_failed
    /\ UNCHANGED <<gepavars, routervars, limitervars>>
    /\ UNCHANGED <<api_key, rate_limit, attempt, attempt_number, sleeps,
                   resp>>

\* the application calls complete_with_logprobs again
HardenedNextCall ==
    /\ tg_pc = "done"
    /\ tg_pc' = "call"
    /\ attempt_number' = 0
    /\ posts' = <<>>
    /\ resp' = None
    /\ tg_out' = None
    /\ UNCHANGED <<gepavars, routervars, limitervars, breakervars>>
    /\ UNCHANGED <<api_key, rate_limit, attempt, sleeps>>

\* time passes
Tick ==
    /\ now < MaxClock
    /\ now' = now + 1
    /\ UNCHANGED <<gepavars, routervars, limitervars, adaptervars>>
    /\ UNCHANGED <<failure_threshold, recovery_timeout, failure_count,
                   last_failure_time, state>>

\* circuit_breaker.call_succeeded() called on its own
CallSucceeded ==
    /\ tg_pc = "done"
    /\ call_succeeded
    /\ UNCHANGED <<gepavars, routervars, limitervars, adaptervars>>

\* circuit_breaker.call_failed() called on its own
CallFailed ==
    /\ tg_pc = "done"
    /\ failure_count < MaxFailures
    /\ call_failed
    /\ UNCHANGED <<gepavars, routervars, limitervars, adaptervars>>

\* circuit_breaker.is_open() called on its own
IsOpen ==
    /\ tg_pc = "done"
    /\ state' = is_open_state
    /\ UNCHANGED <<gepavars, routervars, limitervars, adaptervars>>
    /\ UNCHANGED <<failure_threshold, recovery_timeout, failure_count,
                   last_failure_time, now>>

NextHardened ==
    \/ HardenedShortCircuit
    \/ HardenedNoKey
    \/ HardenedProceed
    \/ HardenedRequestOk
    \/ HardenedRequestFails
    \/ HardenedNextCall
    \/ Tick
    \/ CallSucceeded
    \/ CallFailed
    \/ IsOpen

SpecHardened == InitHardened /\ [][NextHardened]_vars

(***************************************************************************)
(* auth/jwt_auth.py: a RateLimiter and the calls of check_rate_limit made  *)
(* on it, at times that never decrease.                                    *)
(***************************************************************************)
\* minute_ago = now - 60
Window == 60

ClientKeys == {"k1", "k2"}

\* the time that passes between two calls
Steps == {0, 1, Window - 1, Window}

\* [req_time for req_time in self.requests[key] if req_time > minute_ago]
Cleaned(reqs, t) == SelectSeq(reqs, LAMBDA x : x > t - Window)

\* the limit test that lets one request more through
WithinLimit_OneMore(kept, rpm) == ~ (Len(kept) > rpm)

\* not (len(self.requests[key]) >= self.requests_per_minute)
WithinLimit(kept, rpm) == ~ (Len(kept) >= rpm)

ChecksMade == SumOver([k \in ClientKeys |-> Len(checks[k])], ClientKeys)

InitLimiter ==
    /\ GepaIdle
    /\ pc = "limiter"
    /\ RouterIdle
    /\ AdapterIdle
    /\ BreakerIdle
    /\ requests_per_minute \in 0..MaxRpm
    /\ requests = [k \in ClientKeys |-> <<>>]
    /\ checks = [k \in ClientKeys |-> <<>>]
    /\ allowed = None

\* check_rate_limit(key) returns True and records the request
CheckAllowed ==
    /\ ChecksMade < MaxChecks
    /\ \E key \in ClientKeys, dt \in Steps :
        LET kept == Cleaned(requests[key], now + dt)
        IN  /\ WithinLimit(kept, requests_per_minute)
            /\ now' = now + dt
            /\ requests' = [requests EXCEPT ![key] = Append(kept, now + dt)]
            /\ checks' = [checks EXCEPT ![key] = Append(@, <<now + dt, TRUE>>)]
            /\ allowed' = Some(<<key, TRUE>>)
    /\ UNCHANGED <<gepavars, routervars, adaptervars>>
    /\ UNCHANGED <<requests_per_minute, failure_threshold, recovery_timeout,
                   failure_count, last_failure_time, state>>

\* check_rate_limit(key) returns False: only the cleaning took place
CheckRejected ==
    /\ ChecksMade < MaxChecks
    /\ \E key \in ClientKeys, dt \in Steps :
        LET kept == Cleaned(requests[key], now + dt)
        IN  /\ ~ WithinLimit(kept, requests_per_minute)
            /\ now' = now + dt
            /\ requests' = [requests EXCEPT ![key] = kept]
            /\ checks' = [checks EXCEPT ![key] = Append(@, <<now + dt, FALSE>>)]
            /\ allowed' = Some(<<key, FALSE>>)
    /\ UNCHANGED <<gepavars, routervars, adaptervars>>
    /\ UNCHANGED <<requests_per_minute, failure_threshold, recovery_timeout,
                   failure_count, last_failure_time, state>>

NextLimiter == CheckAllowed \/ CheckRejected

SpecLimiter == InitLimiter /\ [][NextLimiter]_vars


(***************************************************************************)
(* Vocabulary of the properties.                                           *)
(***************************************************************************)
Range(s) == {s[k] : k \in DOMAIN s}

NoDupPrompts(s) ==
    \A a, b \in DOMAIN s : a # b => s[a].prompt # s[b].prompt

\* a is at least b in every objective and they differ
ParetoBetter(a, b) ==
    /\ \A k \in 1..3 : a[k][1] * b[k][2] >= b[k][1] * a[k][2]
    /\ a # b

NonDominated(the_pool) ==
    {the_pool[k] : k \in {i \in DOMAIN the_pool :
        \A m \in DOMAIN the_pool :
            ~ ParetoBetter(the_pool[m].score[1], the_pool[i].score[1])}}

\* lexicographic >= on score tuples, by the first component that differs
LexGeScore(a, b) ==
    LET diff == {k \in 1..3 : a[k] # b[k]}
    IN  \/ diff = {}
        \/ LET k0 == CHOOSE k \in diff : \A m \in diff : k <= m
           IN  a[k0][1] * b[k0][2] > b[k0][1] * a[k0][2]

LexMaxIdx(the_pool) ==
    {k \in DOMAIN the_pool :
        \A m \in DOMAIN the_pool : LexGeScore(the_pool[k].score[1], the_pool[m].score[1])}

Perms(n) ==
    {f \in [1..n -> 1..n] : \A a, b \in 1..n : a # b => f[a] # f[b]}

Permuted(s, f) == [k \in 1..Len(s) |-> s[f[k]]]

\* positions of the first occurrence of each prompt
FirstIdx(s) ==
    {k \in DOMAIN s : \A e \in 1..(k - 1) : s[e].prompt # s[k].prompt}

FirstPos(s, prompt) == CHOOSE k \in FirstIdx(s) : s[k].prompt = prompt

\* the list self.pool was assigned before the last _dedupe_and_cap
Merged == parents \o new_children

ExternalErrors == {"call_fn", "reflect_fn", "log_gepa_step"}

(***************************************************************************)
(* C1: run returns the prompt of a final-pool candidate whose score tuple  *)
(* is lexicographically (exact, grounding, confidence) at least that of    *)
(* every final-pool candidate; when a single candidate attains that        *)
(* maximum, every reordering of the pool yields the same champion.         *)
(***************************************************************************)
C1_ChampionIsLexMax ==
    pc = "done" =>
        /\ \E k \in LexMaxIdx(pool) : result = Some(pool[k].prompt)
        /\ Cardinality(LexMaxIdx(pool)) = 1 =>
              \A f \in Perms(Len(pool)) :
                  Champion(Permuted(pool, f)).prompt = result[1]

\* the champion is not the first pool entry and wins on exact match although
\* another entry has the better grounding
C1_Witness ==
    /\ pc = "done"
    /\ Len(pool) >= 2
    /\ Cardinality(LexMaxIdx(pool)) = 1
    /\ result # Some(pool[1].prompt)
    /\ \E k \in DOMAIN pool :
          pool[k].score[1][2][1] * Champion(pool).score[1][2][2]
              > Champion(pool).score[1][2][1] * pool[k].score[1][2][2]

(***************************************************************************)
(* C2: at champion selection the pool is exactly the Pareto front of the   *)
(* last generation's fully scored pool; the dedupe/cap pass of the final   *)
(* branch removes no front member.                                         *)
(***************************************************************************)
C2_FinalPoolIsFront ==
    [][(pc = "final" /\ g = generations - 1) =>
            Range(pool') = NonDominated(pool)]_vars

(***************************************************************************)
(* C3: no two pool entries ever have the same prompt, and after a reseed   *)
(* the entry kept for a prompt is its first occurrence in parents +        *)
(* children: a retained parent keeps its score and trace.                  *)
(***************************************************************************)
C3_UniqueFirstOccurrence ==
    /\ NoDupPrompts(pool)
    /\ (g >= 1 /\ pc = "score") =>
          \A k \in DOMAIN pool :
              /\ \E e \in DOMAIN Merged : Merged[e].prompt = pool[k].prompt
              /\ LET first == Merged[FirstPos(Merged, pool[k].prompt)]
                 IN  first.score # None => pool[k] = first

\* a reseed of two parents that dropped a child equal to one of them
C3_Witness ==
    /\ pc = "score"
    /\ g >= 1
    /\ Len(pool) >= 2
    /\ \E a, b \in DOMAIN Merged :
          /\ a < b
          /\ Merged[a].prompt = Merged[b].prompt
          /\ Merged[a].score # None
          /\ Merged[b].score = None
          /\ Merged[a] \in Range(pool)

(***************************************************************************)
(* C4: after every reseed the pool holds at most cap_pool entries.         *)
(***************************************************************************)
C4_PoolWithinCap == g >= 1 => Len(pool) <= cap_pool

(***************************************************************************)
(* C5: _dedupe_and_cap keeps an unscored entry only if it keeps every      *)
(* scored one; scored entries precede unscored ones, each group in input   *)
(* order; the prompts kept do not depend on the score values.              *)
(***************************************************************************)
\* the pools that differ from s in the values of the scores only
Rescored(s) ==
    LET has_score == {k \in DOMAIN s : s[k].score # None}
    IN  {[k \in DOMAIN s |->
            IF k \in has_score THEN [s[k] EXCEPT !.score = Some(f[k])] ELSE s[k]] :
                f \in [has_score -> PoolScores]}

C5_ScoredBeforeUnscored ==
    pc = "deduped" =>
        /\ \A k \in DOMAIN pool :
              pool[k] = Merged[FirstPos(Merged, pool[k].prompt)]
        /\ (\E k \in DOMAIN pool : pool[k].score = None) =>
              \A e \in FirstIdx(Merged) :
                  Merged[e].score # None => Merged[e] \in Range(pool)
        /\ \A a, b \in DOMAIN pool :
              a < b =>
                  /\ pool[a].score = None => pool[b].score = None
                  /\ ((pool[a].score = None) <=> (pool[b].score = None)) =>
                        FirstPos(Merged, pool[a].prompt) < FirstPos(Merged, pool[b].prompt)
        /\ \A q \in Rescored(Merged) :
              [k \in DOMAIN dedupe_and_cap(q, cap_pool) |->
                    dedupe_and_cap(q, cap_pool)[k].prompt]
                  = [k \in DOMAIN pool |-> pool[k].prompt]

\* more distinct prompts than the cap, an unscored entry first in the input,
\* and the output holds every scored entry and one unscored entry
C5_Witness ==
    /\ pc = "deduped"
    /\ cap_pool >= 2
    /\ Cardinality(FirstIdx(Merged)) > cap_pool
    /\ Merged[1].score = None
    /\ \E e \in DOMAIN Merged : Merged[e].score # None
    /\ \E k \in DOMAIN pool : pool[k].score = None
    /\ Len(pool) = cap_pool

(***************************************************************************)
(* C6: for a non-empty list pareto_front returns exactly the indices that  *)
(* no other index dominates; the result is not empty, two incomparable     *)
(* tuples are both in it, identical tuples are all in it.                  *)
(***************************************************************************)
C6_ParetoFrontExact ==
    (front_idx # None /\ points # <<>>) =>
        LET f == front_idx[1]
            n == Len(points)
        IN  /\ Range(f) = {i \in 1..n :
                    \A m \in (1..n) \ {i} : ~ ParetoBetter(points[m], points[i])}
            /\ \A a, b \in DOMAIN f : a < b => f[a] < f[b]
            /\ f # <<>>
            /\ \A a, b \in 1..n :
                  (a # b /\ ~ ParetoBetter(points[a], points[b])
                        /\ ~ ParetoBetter(points[b], points[a]) /\ n = 2) =>
                      {a, b} \subseteq Range(f)
            /\ (\A a, b \in 1..n : points[a] = points[b]) => f = [k \in 1..n |-> k]

\* two incomparable tuples in the front, a dominated one between them
C6_Witness ==
    /\ front_idx = Some(<<1, 3>>)
    /\ Len(points) = 3
    /\ ~ ParetoBetter(points[1], points[3])
    /\ ~ ParetoBetter(points[3], points[1])
    /\ points[1] # points[3]

(***************************************************************************)
(* C7: dominates(a, b) iff a >= b in all three components and a > b in at  *)
(* least one; dominates is irreflexive, asymmetric and transitive.         *)
(***************************************************************************)
C7_DominatesCharacterised ==
    dom # None =>
        LET d == dom[1]
            n == Len(points)
        IN  \A a, b \in 1..n :
                /\ d[a][b] <=>
                      /\ RGe(points[a][1], points[b][1])
                      /\ RGe(points[a][2], points[b][2])
                      /\ RGe(points[a][3], points[b][3])
                      /\ \/ RGt(points[a][1], points[b][1])
                         \/ RGt(points[a][2], points[b][2])
                         \/ RGt(points[a][3], points[b][3])
                /\ ~ d[a][a]
                /\ points[a] = points[b] => ~ d[a][b]
                /\ d[a][b] => ~ d[b][a]
                /\ \A c \in 1..n : (d[a][b] /\ d[b][c]) => d[a][c]

\* a chain of three tuples, each dominating the next
C7_Witness ==
    /\ dom # None
    /\ Len(points) = 3
    /\ dom[1][1][2]
    /\ dom[1][2][3]
    /\ dom[1][1][3]

(***************************************************************************)
(* C8: in a run in which no child is created the pool is [seed] at every   *)
(* step, the seed is scored exactly once and run returns the seed prompt.  *)
(***************************************************************************)
C8_NoChildRunKeepsSeed ==
    (seed_prompt # None /\ created = 0) =>
        /\ Len(pool) = 1
        /\ pool[1].prompt = seed_prompt[1]
        /\ \A c \in DOMAIN calls :
              calls[c] <= (IF c[1] = seed_prompt[1] THEN 1 ELSE 0)
        /\ err \notin ExternalErrors => pc # "error"
        /\ pc = "done" =>
              /\ result = seed_prompt
              /\ \A c \in DOMAIN calls : c[1] = seed_prompt[1] => calls[c] = 1

(***************************************************************************)
(* C9: when call_fn, reflect_fn and the observer do not raise, run ends    *)
(* after exactly max(1, generations) generations and returns the prompt of *)
(* a pool member; champion selection never meets an empty pool.            *)
(***************************************************************************)
C9_RunIsTotal ==
    /\ pc = "error" => err \in ExternalErrors
    /\ ~ (pc = "score" /\ Pending(pool) = 0 /\ g = generations /\ pool = <<>>)
    /\ pc = "done" =>
          /\ g = generations
          /\ generations >= 1
          /\ \E k \in DOMAIN pool : result = Some(pool[k].prompt)

(***************************************************************************)
(* C10: when call_fn or reflect_fn raises, the run ends in that error: no  *)
(* champion is returned and neither function is invoked again.             *)
(***************************************************************************)
C10_RaiseEndsRun ==
    [][/\ err' \in {"call_fn", "reflect_fn"} => (pc' = "error" /\ result' = None)
       /\ err \in {"call_fn", "reflect_fn"} =>
              (calls' = calls /\ j' = j /\ err' = err /\ pc' = "error")]_vars

\* call_fn raised on a child in a later generation, after the seed was scored
C10_Witness ==
    /\ pc = "error"
    /\ err = "call_fn"
    /\ g >= 1
    /\ \E k \in DOMAIN pool : pool[k].score # None
    /\ \E k \in DOMAIN pool : pool[k].score = None

(***************************************************************************)
(* C11: a failure of the observer hook log_gepa_step does not affect the   *)
(* search: no run ends in an exception of the hook.                        *)
(***************************************************************************)
C11_ObserverFailureHarmless == ~ (pc = "error" /\ err = "log_gepa_step")

(***************************************************************************)
(* C12: exact_match is 1 iff the trimmed prediction equals the trimmed     *)
(* gold and 0 otherwise, and it is 0 for every prediction when the gold is *)
(* empty, blank or missing.                                                *)
(***************************************************************************)
C12_ExactMatchEmptyGoldIsZero ==
    \A k \in DOMAIN results :
        LET em   == results[k][1]
            pred == Strip(results[k][4].text)
            gold == Strip(eval_set[k].gold)
        IN  /\ em \in {Rat(0, 1), Rat(1, 1)}
            /\ em = Rat(1, 1) <=> pred = gold
            /\ gold = <<>> => em = Rat(0, 1)

(***************************************************************************)
(* C13: _score_prompt calls call_fn once per example, in example order,    *)
(* and returns per metric the sum of the per-example values divided by     *)
(* max(1, number of examples); with no example it makes no call and        *)
(* returns (0, 0, 0).  `results` is the list of per-example tuples          *)
(* _score_prompt holds when it returns.                                    *)
(***************************************************************************)
\* number of pool entries with this prompt that were scored
ScoredCount(prompt) ==
    Cardinality({i \in DOMAIN pool :
                    pool[i].prompt = prompt /\ pool[i].score # None})

\* 1 when the entry being scored has this prompt and example k was reached
InProgress(prompt, k) ==
    IF Pending(pool) # 0 /\ pool[Pending(pool)].prompt = prompt
            /\ k <= Len(results)
    THEN 1 ELSE 0

C13_ScorePromptMeans ==
    [][/\ pc' # "error" =>
             \A prompt \in Prompts, k \in 1..Len(eval_set) :
                 calls'[<<prompt, k>>]
                     = ScoredCount(prompt)' + InProgress(prompt, k)'
       /\ eval_set = <<>> => DOMAIN calls' = {}
       /\ (calls' # calls /\ pc' # "error") =>
             LET k == Len(results')
             IN  /\ k = Len(results) + 1
                 /\ SubSeq(results', 1, k - 1) = results
                 /\ results'[k][1] = exact_match(results'[k][4].text, eval_set[k].gold)
                 /\ results'[k][2] = grounding_score(results'[k][4].text, eval_set[k].sources)
                 /\ results'[k][3] = safe_sum(results'[k][4].token_logprobs)
       /\ pool' # pool =>
             LET i     == Pending(pool)
                 cases == pool'[i].trace[1].cases
                 avg   == pool'[i].score[1]
                 n     == Max2(1, Len(eval_set))
             IN  /\ pool' = [pool EXCEPT ![i] = pool'[i]]
                 /\ pool'[i].prompt = pool[i].prompt
                 /\ Len(results) = Len(eval_set)
                 /\ Len(cases) = Len(eval_set)
                 /\ \A k \in DOMAIN cases :
                       cases[k] = [ex |-> eval_set[k], out |-> results[k][4]]
                 /\ \A c \in 1..3 :
                       Rat(avg[c][1] * n, avg[c][2])
                           = RSum([k \in DOMAIN results |-> results[k][c]])
                 /\ eval_set = <<>> =>
                       avg = <<Rat(0, 1), Rat(0, 1), Rat(0, 1)>>]_vars

\* two examples, one matched and one not: the exact-match mean is 1/2
C13_Witness ==
    /\ Len(eval_set) = 2
    /\ Pending(pool) = 0
    /\ \E i \in DOMAIN pool : pool[i].score[1][1] = Rat(1, 2)
    /\ \A c \in DOMAIN calls : calls[c] = ScoredCount(c[1])

C15_ScoredEntriesFrozen ==
    [][/\ \A k \in DOMAIN pool, m \in DOMAIN pool' :
             (/\ pool[k].score # None
              /\ pool'[m].prompt = pool[k].prompt
              /\ pool'[m].score # None) => pool'[m] = pool[k]
       /\ \A c \in DOMAIN calls :
             calls'[c] # calls[c] =>
                 \A k \in DOMAIN pool :
                     pool[k].prompt = c[1] => pool[k].score = None]_vars

\* the seed was scored once and kept through three generations in which
\* another entry was scored
C15_Witness ==
    /\ pc = "done"
    /\ generations = 3
    /\ Len(eval_set) = 1
    /\ Len(pool) = 2
    /\ \E k \in DOMAIN pool : pool[k].prompt = seed_prompt[1]
    /\ calls[<<seed_prompt[1], 1>>] = 1

(***************************************************************************)
(* C16: reflect_fn is invoked only in generations g < generations - 1 and  *)
(* only when children > 0, once for every member of the generation's       *)
(* Pareto front, in pool order, with that member's prompt and trace.       *)
(***************************************************************************)
\* position of an entry in a pool without duplicates
PosIn(the_pool, p) == CHOOSE k \in DOMAIN the_pool : the_pool[k] = p

\* the arguments of the reflect_fn invocations made so far in this generation
Reflected == [k \in 1..(j - 1) |-> <<parents[k].prompt, parents[k].trace>>]

C16_ReflectOncePerParent ==
    [][/\ pc' = "reflect" =>
             /\ g' < generations' - 1
             /\ children' > 0
             /\ Range(parents') = NonDominated(pool')
             /\ \A a, b \in DOMAIN parents' :
                   a < b => PosIn(pool', parents'[a]) < PosIn(pool', parents'[b])
             /\ j' \in 1..(Len(parents') + 1)
       /\ (pc = "reflect" /\ pc' \in {"reflect", "error"}) => j <= Len(parents)
       /\ (pc = "reflect" /\ pc' = "reflect") => j' = j + 1
       /\ (pc = "reflect" /\ pc' = "score") =>
             /\ j = Len(parents) + 1
             /\ Len(Reflected) = Cardinality(NonDominated(pool))
             /\ \A k \in DOMAIN Reflected :
                   \E e \in DOMAIN pool :
                       Reflected[k] = <<pool[e].prompt, pool[e].trace>>
       /\ (muts' # muts \/ created' # created) => (pc = "reflect" /\ pc' = "reflect")
       /\ pc = "final" => j' = j]_vars

\* both members of a two-entry front were reflected
C16_Witness ==
    /\ pc = "reflect"
    /\ Len(parents) = 2
    /\ j = 3
    /\ Len(Reflected) = 2
    /\ Reflected[1][1] = pool[1].prompt
    /\ Reflected[2][1] = pool[2].prompt

(***************************************************************************)
(* C17: the Pareto front is computed and the observer invoked only on a    *)
(* pool whose entries all have a score; the observer is invoked once per   *)
(* generation, for the indices 0, 1, ..., generations - 1 in increasing    *)
(* order; call_fn is not invoked between selection and reseed.             *)
(***************************************************************************)
C17_ScoreThenSelectInOrder ==
    [][/\ (pc = "score" /\ (pc' \in {"reflect", "final"} \/ err' = "log_gepa_step")) =>
             /\ \A k \in DOMAIN pool : pool[k].score # None
             /\ g < generations
             /\ g' = g
             /\ pool' = pool
       /\ g' # g => (g' = g + 1 /\ pc \in {"reflect", "final"} /\ pc' = "score")
       /\ (pc \in {"reflect", "final"} /\ pc' = "score") => g' = g + 1
       /\ pc \in {"reflect", "final"} => calls' = calls
       /\ pc' = "done" => g' = generations']_vars

\* a run of three generations with a child scored in a later generation
C17_Witness ==
    /\ pc = "done"
    /\ g = 3
    /\ created >= 1
    /\ \E c \in DOMAIN calls : c[1] # seed_prompt[1] /\ calls[c] >= 1

(***************************************************************************)
(* C18: for cap_pool >= 1 every parent of a non-final generation is in the *)
(* pool at the start of the next generation with its score and trace       *)
(* unchanged; the capacity cut drops unscored children only.               *)
(***************************************************************************)
C18_ParentsSurviveReseed ==
    [][(/\ cap_pool >= 1
        /\ pc \in {"reflect", "final"}
        /\ pc' = "score"
        /\ g < generations - 1) =>
            /\ Range(parents) \subseteq Range(pool')
            /\ \A e \in FirstIdx(Merged) :
                  Merged[e] \notin Range(pool') =>
                      (Merged[e].score = None /\ e > Len(parents))]_vars

\* a reseed with more distinct prompts than the cap and a child that
\* repeats the prompt of a parent
C18_Witness ==
    /\ pc = "score"
    /\ g >= 1
    /\ g < generations
    /\ cap_pool >= 1
    /\ Cardinality(FirstIdx(Merged)) > cap_pool
    /\ \E e \in DOMAIN new_children, k \in DOMAIN parents :
          new_children[e].prompt = parents[k].prompt
    /\ Range(parents) \subseteq Range(pool)

C20_PostLoopPassScoresNothing ==
    [][/\ (g' = generations' /\ pc' = "score") =>
             \A k \in DOMAIN pool' : pool'[k].score # None
       /\ g = generations => (calls' = calls /\ pool' = pool)]_vars

\* the loop of a run that created children exited with two scored entries
C20_Witness ==
    /\ pc = "score"
    /\ g = generations
    /\ generations >= 2
    /\ created >= 1
    /\ Len(pool) = 2
    /\ \A k \in DOMAIN pool : pool[k].score # None

(***************************************************************************)
(* C24: for cap_pool >= 1 the lexicographically best score in the pool     *)
(* never decreases, so the champion's score is at least the score of every *)
(* candidate scored during the run, dropped ones included.                 *)
(***************************************************************************)
C24_BestScoreNeverDecreases ==
    [][cap_pool >= 1 =>
          /\ \A k \in DOMAIN pool :
                pool[k].score # None =>
                    \E m \in DOMAIN pool' :
                        /\ pool'[m].score # None
                        /\ LexGeScore(pool'[m].score[1], pool[k].score[1])
          /\ pc' = "done" =>
                \E m \in LexMaxIdx(pool') : result' = Some(pool'[m].prompt)]_vars

\* a run that scored a candidate it dropped later
C24_Witness ==
    /\ pc = "done"
    /\ cap_pool >= 1
    /\ generations = 3
    /\ scored > Len(pool)
    /\ result = seed_prompt

(***************************************************************************)
(* C25: within one run call_fn is invoked at most once for every pair of a *)
(* prompt string and an evaluation example.                                *)
(***************************************************************************)
C25_PromptEvaluatedOnce == \A c \in DOMAIN calls : calls[c] <= 1

(***************************************************************************)
(* C26: the pool is ordered by creation, retained parents in their         *)
(* previous order and then the new children in reflect order; of several   *)
(* final-pool candidates with the greatest score the earliest is returned, *)
(* and the seed is returned whenever its score ties the maximum.           *)
(***************************************************************************)
\* position at which an entry of the reseeded pool was created: its place
\* in the previous pool, or after it its place among the new children
CreatedAt(p) ==
    IF p.score # None THEN PosIn(pool, p)
    ELSE Len(pool) + FirstPos(new_children, p.prompt)

SeedTiesMax ==
    \E k \in LexMaxIdx(pool) : pool[k].prompt = seed_prompt[1]

C26_TiesGoToEarliest ==
    [][/\ (pc \in {"reflect", "final"} /\ pc' = "score") =>
             \A a, b \in DOMAIN pool' :
                 a < b => CreatedAt(pool'[a]) < CreatedAt(pool'[b])
       /\ pc' = "done" =>
             \E m \in LexMaxIdx(pool') :
                 /\ result' = Some(pool'[m].prompt)
                 /\ \A e \in LexMaxIdx(pool') : m <= e
       /\ (pc = "final" /\ g = generations - 1 /\ SeedTiesMax) =>
             /\ pool' # <<>>
             /\ pool'[1].prompt = seed_prompt[1]
             /\ 1 \in LexMaxIdx(pool')
       /\ (pc' = "done" /\ SeedTiesMax) => result' = seed_prompt]_vars

\* the number of candidates a run may score
ScoreBudget == 1 + (generations - 1) * (cap_pool - 1)

(***************************************************************************)
(* C27: for cap_pool >= 1 a run scores at most                             *)
(* 1 + (generations - 1) * (cap_pool - 1) candidates and invokes call_fn   *)
(* at most that many times the number of examples; a child cut off by the  *)
(* capacity limit is not scored.                                           *)
(***************************************************************************)
C27_ScoringBudget ==
    [][cap_pool >= 1 =>
          /\ scored' <= ScoreBudget
          /\ SumOver(calls', DOMAIN calls') <= ScoreBudget * Len(eval_set)
          /\ (pc = "reflect" /\ pc' = "score") =>
                /\ Cardinality({k \in DOMAIN pool' : pool'[k].score = None})
                       <= cap_pool - 1
                /\ Len(pool') <= cap_pool
          /\ \A c \in DOMAIN calls :
                calls'[c] # calls[c] =>
                    \E k \in DOMAIN pool :
                        pool[k].prompt = c[1] /\ pool[k].score = None]_vars

\* a run that used up its budget: the seed and one child in each of the two
\* non-final generations
C27_Witness ==
    /\ pc = "done"
    /\ cap_pool = 2
    /\ generations = 3
    /\ Len(eval_set) = 1
    /\ scored = 3
    /\ scored = ScoreBudget
    /\ SumOver(calls, DOMAIN calls) = 3
    /\ created = 2

(***************************************************************************)
(* C28: at every point of a run, also after call_fn raised in the middle   *)
(* of evaluating a candidate, a pool entry has score None iff it has trace *)
(* None, and the entries scored before the failure keep their scores.      *)
(***************************************************************************)
C28_ScoreAndTraceTogether ==
    [][/\ \A k \in DOMAIN pool' :
             (pool'[k].score = None) <=> (pool'[k].trace = None)
       /\ err' = "call_fn" => pool' = pool]_vars

\* call_fn raised on the second example of the second entry
C28_Witness ==
    /\ pc = "error"
    /\ err = "call_fn"
    /\ Len(eval_set) = 2
    /\ Len(pool) >= 2
    /\ pool[1].score # None
    /\ pool[2].score = None
    /\ pool[2].trace = None
    /\ pool[2].prompt # pool[1].prompt
    /\ calls[<<pool[2].prompt, 1>>] = 1
    /\ calls[<<pool[2].prompt, 2>>] = 1

(***************************************************************************)
(* C21: with THERALOOP_USE_GEPA enabled and a non-empty text, when GEPA    *)
(* detection fails (the detector cannot be initialised or its call raises) *)
(* should_escalate_enhanced returns what should_escalate(token_logprobs,   *)
(* text) returns; a text containing a crisis keyword still yields True.    *)
(***************************************************************************)
DetectionFailed == detection \in {"init_fails", "call_raises"}

C21_FallsBackToKeywords ==
    (/\ escalate # None
     /\ use_gepa(gepa_env)
     /\ user_text # <<>>
     /\ DetectionFailed)
        => escalate = Some(should_escalate(user_logprobs, user_text))

(***************************************************************************)
(* C23: the basic adapter retries only on HTTP 429: one call issues at     *)
(* most 4 requests (3 retries); every other HTTP error and every non-HTTP  *)
(* error is raised at its first occurrence without another request; a 429  *)
(* on the 4th request is raised; and the response is parsed only after a   *)
(* request succeeded.                                                      *)
(***************************************************************************)
Is429(o) == o.kind = "response" /\ o.status = 429

IsOk(o) == o.kind = "response" /\ o.status = 200

C23_RetriesOnlyOn429 ==
    /\ Len(posts) <= max_retries + 1
    /\ \A k \in DOMAIN posts : k < Len(posts) => Is429(posts[k])
    /\ \A k \in DOMAIN posts :
          (~ IsOk(posts[k]) /\ ~ Is429(posts[k])) =>
              /\ k = Len(posts)
              /\ tg_pc = "done"
              /\ tg_out = Some(PostError(posts[k]))
    /\ (Len(posts) = max_retries + 1 /\ Is429(posts[max_retries + 1])) =>
          /\ tg_pc = "done"
          /\ tg_out = Some(Raise(<<"HTTPError", 429>>))
    /\ (resp # None \/ tg_pc = "parse") =>
          /\ posts # <<>>
          /\ IsOk(posts[Len(posts)])
          /\ resp = Some(posts[Len(posts)].body)
    /\ (tg_pc = "done" /\ resp = None) => tg_out[1].kind = "raise"
    /\ (tg_pc = "done" /\ resp # None) => tg_out = Some(ParseResponse(resp[1]))

\* three 429 answers are retried with growing delays, the fourth is raised
C23_Witness ==
    /\ tg_pc = "done"
    /\ Len(posts) = 4
    /\ \A k \in DOMAIN posts : Is429(posts[k])
    /\ sleeps = <<1, 2, 4>>
    /\ tg_out = Some(Raise(<<"HTTPError", 429>>))

(***************************************************************************)
(* C22: in the hardened adapter complete_with_logprobs calls the API with  *)
(* retries: when a request fails with a RequestException or ValueError the *)
(* request is attempted again, up to 3 attempts per call, before the call  *)
(* gives up.                                                               *)
(***************************************************************************)
FailedRetryable(o) == TryFailure(o) \in RetryTypes

C22_FailedRequestIsRetried ==
    tg_pc = "done" =>
        /\ Len(posts) <= stop_after_attempt
        /\ \A k \in DOMAIN posts :
              (FailedRetryable(posts[k]) /\ k < stop_after_attempt)
                  => k < Len(posts)

(***************************************************************************)
(* C29: over any sequence of call_succeeded, call_failed and is_open       *)
(* calls the breaker is closed iff failure_count < failure_threshold; it   *)
(* becomes open exactly when the count reaches the threshold; it leaves    *)
(* open only to half-open and only after recovery_timeout has elapsed      *)
(* since the last failure; it returns to closed only through               *)
(* call_succeeded; and while it is open with the timeout not elapsed       *)
(* complete_with_logprobs issues no API request.                           *)
(***************************************************************************)
C29_BreakerStateMachine ==
    [][/\ (state' = "closed") <=> (failure_count' < failure_threshold')
       /\ (state # "open" /\ state' = "open") =>
             /\ failure_count' = failure_count + 1
             /\ failure_count' >= failure_threshold
             /\ state = "closed" => failure_count' = failure_threshold
       /\ (failure_count < failure_threshold
             /\ failure_count' >= failure_threshold) => state' = "open"
       /\ (state = "open" /\ state' # "open") =>
             /\ state' = "half-open"
             /\ Elapsed
       /\ (state # "closed" /\ state' = "closed") =>
             /\ failure_count' = 0
             /\ last_failure_time' = last_failure_time
       /\ (state = "open" /\ ~ Elapsed) => Len(posts') <= Len(posts)]_vars

(***************************************************************************)
(* C30: for every key and every sequence of check_rate_limit calls with    *)
(* non-decreasing timestamps, the number of calls that returned True       *)
(* within any 60-second window is at most requests_per_minute; a rejected  *)
(* call is not recorded, so it does not extend the blocking period; and a  *)
(* call for one key never changes the outcome for another key.             *)
(***************************************************************************)
\* the calls for `key` that returned True in the window (t - Window, t]
GrantedIn(the_checks, key, t) ==
    {i \in DOMAIN the_checks[key] :
        /\ the_checks[key][i][2]
        /\ the_checks[key][i][1] > t - Window
        /\ the_checks[key][i][1] <= t}

\* the times of the calls for `key` that returned True
GrantTimes(the_checks, key) ==
    {the_checks[key][i][1] : i \in GrantedIn(the_checks, key, now')}

C30_AtMostLimitPerWindow ==
    [][/\ \A key \in ClientKeys :
            \A i \in DOMAIN checks'[key] :
                Cardinality(GrantedIn(checks', key, checks'[key][i][1]))
                    <= requests_per_minute
       /\ \A key \in ClientKeys :
            checks'[key] # checks[key] =>
                LET ret == checks'[key][Len(checks'[key])][2]
                IN  /\ allowed' = Some(<<key, ret>>)
                    /\ ret <=> Cardinality(GrantedIn(checks, key, now'))
                                    < requests_per_minute
                    /\ ~ ret => /\ requests'[key] = Cleaned(requests[key], now')
                                /\ \A t \in Range(requests'[key]) :
                                        t \in Range(requests[key])
                    /\ Range(requests'[key]) = GrantTimes(checks', key)
                    /\ \A other \in ClientKeys \ {key} :
                            /\ requests'[other] = requests[other]
                            /\ checks'[other] = checks[other]]_vars

\* with a limit of one, a key is granted, rejected 59 seconds later and
\* granted again one second after that, the other key being granted between
C30_Witness ==
    /\ requests_per_minute = 1
    /\ Len(checks["k1"]) = 3
    /\ Len(checks["k2"]) = 1
    /\ checks["k1"][1] = <<0, TRUE>>
    /\ checks["k1"][2] = <<Window - 1, FALSE>>
    /\ checks["k1"][3] = <<Window, TRUE>>
    /\ checks["k2"][1] = <<Window - 1, TRUE>>
    /\ requests["k1"] = <<Window>>

====
